---- MODULE Spec2Model ----
(***************************************************************************)
(* ProductHandler.GetProducts (backend/internal/handlers/products.go):     *)
(* the paginated product listing.  One request is followed from its        *)
(* arrival to the return of the handler, with the product table changing   *)
(* underneath it.                                                          *)
(*                                                                         *)
(* A Go int is 64 bits wide.  It is kept here as four 16-bit limbs, least  *)
(* significant first, in two's complement, so that strconv.Atoi's range    *)
(* check and the wrap-around of (page - 1) * limit are the ones of the     *)
(* build.                                                                  *)
(***************************************************************************)
EXTENDS Integers, Sequences, FiniteSets, TLC

\* ------------------------------------------------------------------------
\* Bounds of the model
\* ------------------------------------------------------------------------

\* number of writes (insert, delete) the product table receives in a run
MaxWrites == 1

\* ------------------------------------------------------------------------
\* Go's int: 64 bits as IntLimbs limbs of base LimbBase
\* ------------------------------------------------------------------------

LimbBase == 65536

IntLimbs == 4

SignLimb == LimbBase \div 2

Zero == <<0, 0, 0, 0>>

MaxInt == <<LimbBase - 1, LimbBase - 1, LimbBase - 1, SignLimb - 1>>

MinInt == <<0, 0, 0, SignLimb>>

\* the int n, for 0 <= n < LimbBase
FromNat(n) == <<n, 0, 0, 0>>

IsNeg(x) == x[IntLimbs] >= SignLimb

\* x < n for an int x and 0 <= n < LimbBase
LessThan(x, n) == IsNeg(x) \/ (x[2] = 0 /\ x[3] = 0 /\ x[4] = 0 /\ x[1] < n)

\* x > n for an int x and 0 <= n < LimbBase
GreaterThan(x, n) == ~IsNeg(x) /\ (x[2] # 0 \/ x[3] # 0 \/ x[4] # 0 \/ x[1] > n)

\* x * m + a on 64 bits, for 0 <= m, a <= 100: the limbs of the result modulo
\* 2^64 and the carry out of the top limb
MulAdd(x, m, a) ==
    LET v1 == x[1] * m + a
        v2 == x[2] * m + (v1 \div LimbBase)
        v3 == x[3] * m + (v2 \div LimbBase)
        v4 == x[4] * m + (v3 \div LimbBase)
    IN  [n |-> <<v1 % LimbBase, v2 % LimbBase, v3 % LimbBase, v4 % LimbBase>>,
         carry |-> v4 \div LimbBase]

\* x * m on an int: the product modulo 2^64 (Go's * does not trap)
Mul(x, m) == MulAdd(x, m, 0).n

\* x - 1 on an int, modulo 2^64
Dec(x) ==
    IF x[1] > 0 THEN <<x[1] - 1, x[2], x[3], x[4]>>
    ELSE IF x[2] > 0 THEN <<LimbBase - 1, x[2] - 1, x[3], x[4]>>
    ELSE IF x[3] > 0 THEN <<LimbBase - 1, LimbBase - 1, x[3] - 1, x[4]>>
    ELSE <<LimbBase - 1, LimbBase - 1, LimbBase - 1, (x[4] + LimbBase - 1) % LimbBase>>

\* -x on an int, modulo 2^64
Negate(x) ==
    LET c == <<LimbBase - 1 - x[1], LimbBase - 1 - x[2],
               LimbBase - 1 - x[3], LimbBase - 1 - x[4]>>
        v1 == c[1] + 1
        v2 == c[2] + (v1 \div LimbBase)
        v3 == c[3] + (v2 \div LimbBase)
        v4 == c[4] + (v3 \div LimbBase)
    IN  <<v1 % LimbBase, v2 % LimbBase, v3 % LimbBase, v4 % LimbBase>>

\* ------------------------------------------------------------------------
\* strconv.Atoi on a query parameter (a string is a sequence of characters)
\* ------------------------------------------------------------------------

Digits == <<"0", "1", "2", "3", "4", "5", "6", "7", "8", "9">>

IsDigit(c) == \E i \in 1..Len(Digits) : Digits[i] = c

DigitVal(c) == (CHOOSE i \in 1..Len(Digits) : Digits[i] = c) - 1

\* the unsigned value of the digits s[i..], accumulated onto acc; range is set
\* once the value no longer fits 64 bits
RECURSIVE ParseUint(_, _, _)
ParseUint(s, i, acc) ==
    IF i > Len(s) THEN [n |-> acc, range |-> FALSE]
    ELSE LET r == MulAdd(acc, 10, DigitVal(s[i]))
         IN  IF r.carry > 0 THEN [n |-> MaxInt, range |-> TRUE]
             ELSE ParseUint(s, i + 1, r.n)

\* the value and the error of strconv.Atoi(s)
Atoi(s) ==
    LET neg == Len(s) > 0 /\ s[1] = "-"
        signed == Len(s) > 0 /\ s[1] \in {"+", "-"}
        body == IF signed THEN Tail(s) ELSE s
    IN  IF Len(body) = 0 \/ \E i \in 1..Len(body) : ~IsDigit(body[i])
        THEN [n |-> Zero, err |-> "ErrSyntax"]
        ELSE LET u == ParseUint(body, 1, Zero)
             IN  IF u.range
                 THEN [n |-> IF neg THEN MinInt ELSE MaxInt, err |-> "ErrRange"]
                 ELSE IF ~neg /\ IsNeg(u.n)
                 THEN [n |-> MaxInt, err |-> "ErrRange"]
                 ELSE IF neg /\ IsNeg(u.n) /\ u.n # MinInt
                 THEN [n |-> MinInt, err |-> "ErrRange"]
                 ELSE [n |-> IF neg THEN Negate(u.n) ELSE u.n, err |-> "nil"]

\* ------------------------------------------------------------------------
\* Requests and product tables the model explores
\* ------------------------------------------------------------------------

\* the string of decimal digits ds
Str(ds) == [i \in 1..Len(ds) |-> Digits[ds[i] + 1]]

\* 2^63 - 1, the largest int
StrMaxInt == Str(<<9, 2, 2, 3, 3, 7, 2, 0, 3, 6, 8, 5, 4, 7, 7, 5, 8, 0, 7>>)

\* 2^63, one too large for an int
StrMaxIntPlus1 == Str(<<9, 2, 2, 3, 3, 7, 2, 0, 3, 6, 8, 5, 4, 7, 7, 5, 8, 0, 8>>)

\* (2^64 + 2) / 3 + 1
StrThirdOfWord == Str(<<6, 1, 4, 8, 9, 1, 4, 6, 9, 1, 2, 3, 6, 5, 1, 7, 2, 0, 7>>)

\* 10^20 - 1, too large for 64 bits
StrTwentyNines == Str(<<9, 9, 9, 9, 9, 9, 9, 9, 9, 9, 9, 9, 9, 9, 9, 9, 9, 9, 9, 9>>)

\* values of the page query parameter ("" is also what a missing one reads as)
PageInputs ==
    { <<>>, <<"a", "b", "c">>, <<"0">>, <<"-", "3">>, <<"1">>, <<"2">>,
      <<"3">>, <<"+", "2">>, StrThirdOfWord, StrMaxInt, StrMaxIntPlus1 }

\* values of the limit query parameter
LimitInputs ==
    { <<>>, <<"a", "b", "c">>, <<"0">>, <<"-", "1">>, <<"1">>, <<"3">>,
      <<"1", "0">>, <<"1", "0", "0">>, <<"1", "0", "1">>, StrTwentyNines }

\* numbers of rows of the product table when the run starts
InitRows == {0, 1, 5, 25}

\* ------------------------------------------------------------------------
\* State
\* ------------------------------------------------------------------------

VARIABLES
    pc,          \* where the handler stands: idle, count, fetch, compose, done
    pageStr,     \* r.URL.Query().Get("page")
    limitStr,    \* r.URL.Query().Get("limit")
    page,        \* int
    limit,       \* int, in 1..100 once normalised
    offset,      \* int
    totalCount,  \* result of the count query
    products,    \* rows of the fetch query (their ids, in order)
    totalPages,  \* int
    span,        \* the span of the request
    w,           \* the http.ResponseWriter
    trace,       \* the side effects of the handler, in order
    store,       \* the products table: the ids of its rows
    nextId,      \* the id the next inserted row gets
    writes,      \* writes the table has received
    static,      \* no write reached the table since the count query
    fetchArgs    \* the arguments the fetch query was given

vars == <<pc, pageStr, limitStr, page, limit, offset, totalCount, products,
          totalPages, span, w, trace, store, nextId, writes, static, fetchArgs>>

reqVars == <<pageStr, limitStr, page, limit, offset>>

storeVars == <<store, nextId, writes>>

DefaultPage == 1

DefaultLimit == 10

MaxLimit == 100

StatusOK == 200

StatusInternalServerError == 500

\* ------------------------------------------------------------------------
\* Collaborators: span, response writer, product store
\* ------------------------------------------------------------------------

\* tracer.Start
SpanStart(s) == [s EXCEPT !.starts = @ + 1]

\* span.SetAttributes: a span that has ended records nothing more
SpanSetAttributes(s, kvs) ==
    IF s.ends > 0 THEN s
    ELSE [s EXCEPT !.attrs = {a \in @ : \A kv \in kvs : kv[1] # a[1]} \cup kvs]

\* span.End
SpanEnd(s) == [s EXCEPT !.ends = @ + 1]

\* a handler that does not defer span.End
DeferredReturn_NoDefer(s) == s

\* the deferred calls run when GetProducts returns: span.End
DeferredReturn(s) == SpanEnd(s)

\* setJSONHeaders
setJSONHeaders(rw) == [rw EXCEPT !.contentType = "application/json"]

\* a first write fixes the status line
WriteHeader(rw, code) == IF rw.status = 0 THEN [rw EXCEPT !.status = code] ELSE rw

\* http.Error(w, msg, code)
HttpError(rw, msg, code) ==
    LET h == IF rw.status = 0
             THEN [rw EXCEPT !.contentType = "text/plain; charset=utf-8"]
             ELSE rw
    IN  [WriteHeader(h, code) EXCEPT !.body = Append(@, [kind |-> "text", data |-> msg])]

\* w.Write of an encoded envelope
WriteEnvelope(rw, response) ==
    [WriteHeader(rw, StatusOK) EXCEPT
        !.body = Append(@, [kind |-> "envelope", data |-> response])]

\* w.Write that fails part-way through the encoded envelope
WriteTruncated(rw) ==
    [WriteHeader(rw, StatusOK) EXCEPT
        !.body = Append(@, [kind |-> "truncated", data |-> "json"])]

\* the ids of S in ascending order (ORDER BY id)
RECURSIVE OrderById(_)
OrderById(S) ==
    IF S = {} THEN <<>>
    ELSE LET m == CHOOSE x \in S : \A y \in S : x <= y
         IN  <<m>> \o OrderById(S \ {m})

\* SELECT COUNT(*) FROM products
CountRows(S) == Cardinality(S)

\* the rows OFFSET skips, of n rows, for an offset that is not negative
Skipped(off, n) ==
    IF off[2] = 0 /\ off[3] = 0 /\ off[4] = 0 /\ off[1] < n THEN off[1] ELSE n

\* SELECT ... ORDER BY id LIMIT lim OFFSET skip
SelectRows(S, lim, skip) ==
    LET rows == OrderById(S)
        last == IF skip + lim < Len(rows) THEN skip + lim ELSE Len(rows)
    IN  SubSeq(rows, skip + 1, last)

\* the row sets a successful fetch query may return: an engine that accepts a
\* negative OFFSET reads it as 0, one that rejects it fails the query
SelectResults(S, lim, off) ==
    IF IsNeg(off) THEN {SelectRows(S, lim, 0)}
    ELSE {SelectRows(S, lim, Skipped(off, Cardinality(S)))}

\* ------------------------------------------------------------------------
\* GetProducts
\* ------------------------------------------------------------------------

\* page, err := strconv.Atoi(pageStr); if err != nil || page < 1 { page = 1 }
NormalizePage(s) ==
    LET r == Atoi(s)
    IN  IF r.err # "nil" \/ LessThan(r.n, 1) THEN FromNat(DefaultPage) ELSE r.n

\* a normaliser that clamps a limit above 100 to 100
NormalizeLimit_Clamps(s) ==
    LET r == Atoi(s)
    IN  IF r.err # "nil" \/ LessThan(r.n, 1) THEN DefaultLimit
        ELSE IF GreaterThan(r.n, MaxLimit) THEN MaxLimit
        ELSE r.n[1]

\* limit, err := strconv.Atoi(limitStr)
\* if err != nil || limit < 1 || limit > 100 { limit = 10 }
NormalizeLimit(s) ==
    LET r == Atoi(s)
    IN  IF r.err # "nil" \/ LessThan(r.n, 1) \/ GreaterThan(r.n, MaxLimit)
        THEN DefaultLimit ELSE r.n[1]

\* offset := (page - 1) * limit
Offset(p, l) == Mul(Dec(p), l)

\* the integer quotient totalCount / limit
TotalPages_Floor(count, l) == count \div l

\* int(math.Ceil(float64(totalCount) / float64(limit))); the conversions and
\* the quotient's rounding are exact enough for the ceiling at these sizes
TotalPages(count, l) ==
    LET q == count \div l
        r == count % l
    IN  IF r > 0 THEN q + 1 ELSE q

\* models.PaginatedResponse{...}
Response(prods, p, l, pages, count) ==
    [products |-> prods, page |-> p, limit |-> l, total_pages |-> pages, count |-> count]

Init ==
    /\ pc = "idle"
    /\ pageStr = <<>>
    /\ limitStr = <<>>
    /\ page = Zero
    /\ limit = 0
    /\ offset = Zero
    /\ totalCount = 0
    /\ products = <<>>
    /\ totalPages = 0
    /\ span = [starts |-> 0, ends |-> 0, attrs |-> {}]
    /\ w = [contentType |-> "", status |-> 0, body |-> <<>>]
    /\ trace = <<>>
    /\ \E n \in InitRows : store = 1..n /\ nextId = n + 1
    /\ writes = 0
    /\ static = TRUE
    /\ fetchArgs = <<>>

\* lines 27-53: the span is started, the headers set, the parameters normalised
Begin(ps, ls) ==
    /\ pc = "idle"
    /\ pageStr' = ps
    /\ limitStr' = ls
    /\ page' = NormalizePage(ps)
    /\ limit' = NormalizeLimit(ls)
    /\ offset' = Offset(page', limit')
    /\ span' = SpanStart(span)
    /\ w' = setJSONHeaders(w)
    /\ trace' = trace \o <<"log:request", "span.Start", "setJSONHeaders",
                           "log:params", "log:processed">>
    /\ pc' = "count"
    /\ UNCHANGED <<totalCount, products, totalPages, static, fetchArgs>>
    /\ UNCHANGED storeVars

\* lines 56-58, 65: the count query succeeds
CountOk ==
    /\ pc = "count"
    /\ totalCount' = CountRows(store)
    /\ static' = TRUE
    /\ trace' = trace \o <<"log:count query", "db.Get", "db.Get:ok", "log:count">>
    /\ pc' = "fetch"
    /\ UNCHANGED <<products, totalPages, span, w, fetchArgs>>
    /\ UNCHANGED reqVars
    /\ UNCHANGED storeVars

\* a count failure that does not return from the handler
CountFail_NoReturn ==
    /\ pc = "count"
    /\ span' = SpanSetAttributes(span, {<<"error", "count">>})
    /\ w' = HttpError(w, "Internal server error", StatusInternalServerError)
    /\ trace' = trace \o <<"log:count query", "db.Get", "db.Get:err", "log:count error",
                           "span.SetAttributes:error", "http.Error">>
    /\ pc' = "fetch"
    /\ UNCHANGED <<totalCount, products, totalPages, static, fetchArgs>>
    /\ UNCHANGED reqVars
    /\ UNCHANGED storeVars

\* lines 56-64: the count query fails
CountFail ==
    /\ pc = "count"
    /\ span' = DeferredReturn(SpanSetAttributes(span, {<<"error", "count">>}))
    /\ w' = HttpError(w, "Internal server error", StatusInternalServerError)
    /\ trace' = trace \o <<"log:count query", "db.Get", "db.Get:err", "log:count error",
                           "span.SetAttributes:error", "http.Error", "span.End">>
    /\ pc' = "done"
    /\ UNCHANGED <<totalCount, products, totalPages, static, fetchArgs>>
    /\ UNCHANGED reqVars
    /\ UNCHANGED storeVars

\* lines 68-71, 78: the fetch query succeeds
FetchOk ==
    /\ pc = "fetch"
    /\ fetchArgs' = <<limit, offset>>
    /\ products' \in SelectResults(store, limit, offset)
    /\ trace' = trace \o <<"log:products query", "db.Select", "db.Select:ok",
                           "log:retrieved">>
    /\ pc' = "compose"
    /\ UNCHANGED <<totalCount, totalPages, span, w, static>>
    /\ UNCHANGED reqVars
    /\ UNCHANGED storeVars

\* a fetch failure that does not return from the handler
FetchFail_NoReturn ==
    /\ pc = "fetch"
    /\ fetchArgs' = <<limit, offset>>
    /\ span' = SpanSetAttributes(span, {<<"error", "fetch">>})
    /\ w' = HttpError(w, "Internal server error", StatusInternalServerError)
    /\ trace' = trace \o <<"log:products query", "db.Select", "db.Select:err",
                           "log:products error", "span.SetAttributes:error",
                           "http.Error">>
    /\ pc' = "compose"
    /\ UNCHANGED <<totalCount, products, totalPages, static>>
    /\ UNCHANGED reqVars
    /\ UNCHANGED storeVars

\* lines 68-77: the fetch query fails
FetchFail ==
    /\ pc = "fetch"
    /\ fetchArgs' = <<limit, offset>>
    /\ span' = DeferredReturn(SpanSetAttributes(span, {<<"error", "fetch">>}))
    /\ w' = HttpError(w, "Internal server error", StatusInternalServerError)
    /\ trace' = trace \o <<"log:products query", "db.Select", "db.Select:err",
                           "log:products error", "span.SetAttributes:error",
                           "http.Error", "span.End">>
    /\ pc' = "done"
    /\ UNCHANGED <<totalCount, products, totalPages, static>>
    /\ UNCHANGED reqVars
    /\ UNCHANGED storeVars

\* the attributes without page and limit
ResultAttributes_NoPageLimit(p, l, count, pages, returned) ==
    { <<"total_count", count>>, <<"total_pages", pages>>, <<"returned_count", returned>> }

\* the attributes of lines 83-90
ResultAttributes(p, l, count, pages, returned) ==
    { <<"page", p>>, <<"limit", l>>, <<"total_count", count>>,
      <<"total_pages", pages>>, <<"returned_count", returned>> }

\* lines 80-106: the envelope is composed, encoded and written
EncodeOk ==
    /\ pc = "compose"
    /\ totalPages' = TotalPages(totalCount, limit)
    /\ span' = DeferredReturn(SpanSetAttributes(span,
                  ResultAttributes(page, limit, totalCount, totalPages', Len(products))))
    /\ w' = WriteEnvelope(w, Response(products, page, limit, totalPages', totalCount))
    /\ trace' = trace \o <<"log:total pages", "span.SetAttributes:result",
                           "json.Encode", "log:completed", "span.End">>
    /\ pc' = "done"
    /\ UNCHANGED <<totalCount, products, static, fetchArgs>>
    /\ UNCHANGED reqVars
    /\ UNCHANGED storeVars

\* an encode failure answered with http.Error
EncodeFail_SendsError(partial) ==
    /\ pc = "compose"
    /\ totalPages' = TotalPages(totalCount, limit)
    /\ span' = SpanEnd(SpanSetAttributes(span,
                  {<<"page", page>>, <<"limit", limit>>, <<"total_count", totalCount>>,
                   <<"total_pages", totalPages'>>, <<"returned_count", Len(products)>>}))
    /\ w' = HttpError(IF partial THEN WriteTruncated(w) ELSE w,
                      "Internal server error", StatusInternalServerError)
    /\ trace' = trace \o <<"log:total pages", "span.SetAttributes:result",
                           "json.Encode:err", "log:encode error", "http.Error",
                           "span.End">>
    /\ pc' = "done"
    /\ UNCHANGED <<totalCount, products, static, fetchArgs>>
    /\ UNCHANGED reqVars
    /\ UNCHANGED storeVars

\* lines 80-103: encoding the envelope fails, before any byte is written
\* (partial = FALSE) or part-way through the write (partial = TRUE)
EncodeFail(partial) ==
    /\ pc = "compose"
    /\ totalPages' = TotalPages(totalCount, limit)
    /\ span' = DeferredReturn(SpanSetAttributes(span,
                  ResultAttributes(page, limit, totalCount, totalPages', Len(products))))
    /\ w' = IF partial THEN WriteTruncated(w) ELSE w
    /\ trace' = trace \o <<"log:total pages", "span.SetAttributes:result",
                           "json.Encode:err", "log:encode error", "span.End">>
    /\ pc' = "done"
    /\ UNCHANGED <<totalCount, products, static, fetchArgs>>
    /\ UNCHANGED reqVars
    /\ UNCHANGED storeVars

\* another client of the database inserts a product
StoreInsert ==
    /\ writes < MaxWrites
    /\ store' = store \cup {nextId}
    /\ nextId' = nextId + 1
    /\ writes' = writes + 1
    /\ static' = (static /\ pc # "fetch")
    /\ UNCHANGED <<pc, totalCount, products, totalPages, span, w, trace, fetchArgs>>
    /\ UNCHANGED reqVars

\* another client of the database deletes a product
StoreDelete(id) ==
    /\ writes < MaxWrites
    /\ id \in store
    /\ store' = store \ {id}
    /\ writes' = writes + 1
    /\ static' = (static /\ pc # "fetch")
    /\ UNCHANGED <<pc, totalCount, products, totalPages, span, w, trace, fetchArgs, nextId>>
    /\ UNCHANGED reqVars

Next ==
    \/ \E ps \in PageInputs, ls \in LimitInputs : Begin(ps, ls)
    \/ CountOk
    \/ CountFail
    \/ FetchOk
    \/ FetchFail
    \/ EncodeOk
    \/ \E partial \in BOOLEAN : EncodeFail(partial)
    \/ StoreInsert
    \/ \E id \in store : StoreDelete(id)

Spec == Init /\ [][Next]_vars

\* ------------------------------------------------------------------------
\* Vocabulary of the properties
\* ------------------------------------------------------------------------

InTrace(e) == \E i \in DOMAIN trace : trace[i] = e

Occurrences(e) == Cardinality({i \in DOMAIN trace : trace[i] = e})

\* e1 occurs, and every e2 comes after an e1
Precedes(e1, e2) ==
    \A j \in DOMAIN trace : trace[j] = e2 => \E i \in 1..(j - 1) : trace[i] = e1

\* the envelopes written to the client
Envelopes == {w.body[i].data : i \in {j \in DOMAIN w.body : w.body[j].kind = "envelope"}}

\* the chunks of the response body that are not the error text
DataChunks == {i \in DOMAIN w.body : w.body[i].kind # "text"}

QueryFailed == InTrace("db.Get:err") \/ InTrace("db.Select:err")

QueriesSucceeded == InTrace("db.Get:ok") /\ InTrace("db.Select:ok")

\* page parameters that are missing, not a number, not an int, or below 1
InvalidPageInputs == { <<>>, <<"a", "b", "c">>, <<"0">>, <<"-", "3">>, StrMaxIntPlus1 }

\* limit parameters that are missing, not a number, not an int, below 1 or
\* above 100
InvalidLimitInputs ==
    { <<>>, <<"a", "b", "c">>, <<"0">>, <<"-", "1">>, <<"1", "0", "1">>, StrTwentyNines }

\* (p - 1) * l as a number fits the int the handler computes it in
ProductFits(p, l) ==
    LET r == MulAdd(Dec(p), l, 0) IN r.carry = 0 /\ ~IsNeg(r.n)

\* min(l, max(0, count - (p - 1) * l)), with (p - 1) * l the number
ExpectedReturned(count, l, p) ==
    LET r == MulAdd(Dec(p), l, 0)
        below == r.carry = 0 /\ r.n[2] = 0 /\ r.n[3] = 0 /\ r.n[4] = 0 /\ r.n[1] < count
    IN  IF ~below THEN 0
        ELSE IF count - r.n[1] < l THEN count - r.n[1] ELSE l

\* ------------------------------------------------------------------------
\* Properties
\* ------------------------------------------------------------------------

C2_ValidInputsUnchanged ==
    (pc # "idle" /\ pageStr \notin InvalidPageInputs /\ limitStr \notin InvalidLimitInputs)
        => /\ page = Atoi(pageStr).n
           /\ FromNat(limit) = Atoi(limitStr).n
           /\ ProductFits(page, limit)
           /\ offset = MulAdd(Dec(page), limit, 0).n
           /\ fetchArgs # <<>> => fetchArgs = <<limit, offset>>
           /\ \A e \in Envelopes : e.page = page /\ e.limit = limit

\* C3: in every envelope total_pages is the ceiling of count / limit, the
\* least n with n * limit >= count; count is the result of the count query and
\* limit the normalised limit, never zero.
C3_TotalPagesIsCeiling ==
    \A e \in Envelopes :
        /\ e.count = totalCount
        /\ e.limit = limit
        /\ e.limit >= 1
        /\ e.total_pages >= 0
        /\ e.total_pages * e.limit >= e.count
        /\ e.total_pages > 0 => (e.total_pages - 1) * e.limit < e.count
        /\ e.count = 0 => e.total_pages = 0
        /\ (e.count = 25 /\ e.limit = 10) => e.total_pages = 3

C3_Witness ==
    \E e \in Envelopes : e.count = 25 /\ e.limit = 10 /\ e.total_pages = 3

\* C4: an envelope never holds more than limit products, whatever the table
\* received between the two queries; on an unchanged table it holds
\* min(limit, max(0, totalCount - offset)) of them, so none when offset >=
\* totalCount, in a response that is not an error.
C4_ReturnedCount ==
    \A e \in Envelopes :
        /\ Len(e.products) <= e.limit
        /\ w.status = StatusOK
        /\ static => Len(e.products) = ExpectedReturned(e.count, e.limit, e.page)

\* C5: a request whose count or fetch query failed is answered with 500 and
\* the text "Internal server error" and nothing else; no response carries
\* both an error status and envelope data.
C5_FailureIsGenericError ==
    /\ QueryFailed =>
          /\ pc = "done"
          /\ w.status = 500
          /\ w.body = <<[kind |-> "text", data |-> "Internal server error"]>>
    /\ w.status = 500 => DataChunks = {}
    /\ DataChunks # {} => w.status = 200

C5_Witness ==
    /\ pc = "done"
    /\ InTrace("db.Select:err")
    /\ InTrace("db.Get:ok")
    /\ w.status = 500

\* C6: a request starts one span and ends it once, on every path; on a
\* query-failure path the error attribute is on the span and was set before
\* the span ended.
C6_OneSpanPerRequest ==
    /\ span.starts = (IF pc = "idle" THEN 0 ELSE 1)
    /\ span.ends = (IF pc = "done" THEN 1 ELSE 0)
    /\ Occurrences("span.Start") = span.starts
    /\ Occurrences("span.End") = span.ends
    /\ QueryFailed =>
          /\ \E a \in span.attrs : a[1] = "error"
          /\ Precedes("span.SetAttributes:error", "span.End")

C6_Witness ==
    /\ pc = "done"
    /\ InTrace("db.Get:err")
    /\ span.starts = 1
    /\ span.ends = 1
    /\ <<"error", "count">> \in span.attrs

\* C7 (as stated): when the span has ended it carries the normalised page and
\* limit, on the query-failure paths too, and totalCount, totalPages and
\* returnedCount when the queries succeeded.
C7_PageLimitOnEveryPath ==
    span.ends > 0 =>
        /\ <<"page", page>> \in span.attrs
        /\ <<"limit", limit>> \in span.attrs
        /\ QueriesSucceeded =>
              /\ <<"total_count", totalCount>> \in span.attrs
              /\ <<"total_pages", totalPages>> \in span.attrs
              /\ <<"returned_count", Len(products)>> \in span.attrs

\* C7 (amended): when the span of a request whose two queries succeeded has
\* ended, it carries the normalised page and limit, totalCount, totalPages and
\* returnedCount; the span of a request whose query failed carries the error
\* description and neither page nor limit.
C7_ResultAttributesOnSuccess ==
    span.ends > 0 =>
        /\ QueriesSucceeded =>
              /\ <<"page", page>> \in span.attrs
              /\ <<"limit", limit>> \in span.attrs
              /\ <<"total_count", totalCount>> \in span.attrs
              /\ <<"total_pages", totalPages>> \in span.attrs
              /\ <<"returned_count", Len(products)>> \in span.attrs
        /\ QueryFailed => \A a \in span.attrs : a[1] = "error"

C7_Witness ==
    /\ span.ends = 1
    /\ QueriesSucceeded
    /\ <<"page", <<2, 0, 0, 0>>>> \in span.attrs
    /\ <<"limit", 3>> \in span.attrs
    /\ <<"total_count", 5>> \in span.attrs
    /\ <<"total_pages", 2>> \in span.attrs
    /\ <<"returned_count", 2>> \in span.attrs

\* C8: the count query is issued, and has returned, before the fetch query is
\* issued; the fetch query is issued only after a count query that succeeded;
\* each query is issued at most once.
C8_CountThenFetch ==
    /\ Occurrences("db.Get") <= 1
    /\ Occurrences("db.Select") <= 1
    /\ Precedes("db.Get:ok", "db.Select")
    /\ InTrace("db.Get:err") => ~InTrace("db.Select")

C8_Witness ==
    /\ pc = "done"
    /\ InTrace("db.Get:err")
    /\ ~InTrace("db.Select")

\* C9: when encoding the envelope fails after both queries succeeded, the
\* failure is logged and nothing else: no 500 response, no completion log
\* line, and the span is ended.
C9_EncodeFailureOnlyLogged ==
    InTrace("json.Encode:err") =>
        /\ pc = "done"
        /\ QueriesSucceeded
        /\ InTrace("log:encode error")
        /\ w.status # 500
        /\ \A i \in DOMAIN w.body : w.body[i].kind # "text"
        /\ ~InTrace("http.Error")
        /\ ~InTrace("log:completed")
        /\ span.ends = 1

C9_Witness ==
    /\ pc = "done"
    /\ InTrace("json.Encode:err")
    /\ InTrace("log:encode error")
    /\ w.body = <<>>
    /\ span.ends = 1

\* C10: for every normalised pair the offset given to the fetch query is not
\* negative and is the number (page - 1) * limit: the multiplication does not
\* wrap around.
C10_OffsetDoesNotWrap ==
    fetchArgs # <<>> =>
        /\ ~IsNeg(fetchArgs[2])
        /\ MulAdd(Dec(page), limit, 0).carry = 0
        /\ fetchArgs[2] = MulAdd(Dec(page), limit, 0).n

====
